---- MODULE Spec2Model ----
(***************************************************************************)
(* RbnVfdDisplay: the RBN telnet client task (rbn_client.rs) and the        *)
(* aggregation store (spot_store.rs).                                       *)
(*                                                                          *)
(* Spec      the client task, its two channels, the consumer and the peer   *)
(* FairSpec  the same system under the scheduling fairness of the runtime   *)
(* AltSpec   the same system with a consumer that polls between commands    *)
(* StoreSpec the spot store fed with the observations the parser yields     *)
(* QuerySpec the spot store with every one of its operations called         *)
(* ApiSpec   the spot store fed with any observation add_spot accepts       *)
(* ConcSpec  the spot store called from concurrent threads                  *)
(***************************************************************************)
EXTENDS Integers, Sequences, FiniteSets, TLC

VARIABLES
    pc,        \* await point of rbn_task
    stream,    \* rbn_task's `stream`: 0 is None, n > 0 is Some(socket n)
    outbox,    \* events of the running handler whose msg_tx.send is still to complete
    cs,        \* callsign of the Connect being handled
    cmdq,      \* command channel (cmd_tx -> cmd_rx)
    msgq,      \* event channel (msg_tx -> msg_rx)
    cpend,     \* command the consumer is blocked sending, or NoCmd
    sock,      \* the TCP connection of the current attempt, peer side included
    rbuf,      \* lines held by handle_login's BufReader
    ncmds,     \* commands the consumer has issued
    nsent,     \* lines the peer has sent, over all connections
    ndeq,      \* Connect commands dequeued by rbn_task
    attempts,  \* TcpStream::connect calls that have resolved
    emitted,   \* history: events accepted by the event channel, in order
    received,  \* history: events try_recv handed to the consumer, in order
    track,     \* whether the two histories are recorded
    polled,    \* the consumer has called try_recv since its last command
    spots,     \* SpotStore.spots: key -> AggregatedSpot
    now,       \* Instant::now(), in seconds
    merged,    \* history: key -> observations merged into the resident record
    nadds,     \* add_spot calls made
    nticks,    \* clock advances made
    lastOp,    \* the store operation called last
    result,    \* what it returned, when it is one of the three queries
    args,      \* its arguments, when it is the filtered query
    counted,   \* what it returned, when it is count()
    poisoned,  \* the mutex is poisoned: lock() returns Err
    panicked,  \* history: a store operation has panicked in its caller
    lock,      \* the thread that holds the guard of the mutex, or 0
    th         \* concurrent callers of the store: where each is in its call

mvars == <<pc, stream, outbox, cs, cmdq, msgq, cpend, sock, rbuf,
           ncmds, nsent, ndeq, attempts, emitted, received, track, polled>>
svars == <<spots, now, merged, nadds, nticks, lastOp, result, args, counted,
           poisoned, panicked>>
cvars == <<lock, th>>
vars == <<pc, stream, outbox, cs, cmdq, msgq, cpend, sock, rbuf,
          ncmds, nsent, ndeq, attempts, emitted, received, track, polled,
          spots, now, merged, nadds, nticks, lastOp, result, args, counted,
          poisoned, panicked, lock, th>>

-----------------------------------------------------------------------------
(* Bounds of the exploration *)

MaxCmds == 3
MaxLines == 2
MaxEmitted == 6

(* mpsc::channel(16) and mpsc::channel(256), scaled down *)
CMD_CAPACITY == 1
MSG_CAPACITY == 2

Callsigns == {"N0CALL", "K1ABC"}

MaxAdds == 2
MaxTicks == 2

(* spotted callsigns, as characters *)
Calls == {<<"K", "1">>, <<"K", "1", "|", "2">>}
(* frequencies in tenths of a kHz: 24.5, 25.4, 25.6 *)
Freqs == {245, 254, 256}
Snrs == {5, 10}
Wpms == {20, 25}
(* seconds the clock advances by between calls *)
TickSteps == {1, 1800}
(* freshness windows and SNR floors callers pass to the filtered query *)
MaxAges == {600, 3600}
MinSnrs == {10}
(* no filtered query has been made *)
NoArgs == [min_snr |-> 0, max_age |-> 0]

(* threads that call the store concurrently: two insert, one queries *)
Writers == {1, 2}
Readers == {3}
Threads == Writers \cup Readers

(* a thread that is in no call of the store *)
NoRaw == [call |-> <<>>, freq |-> 0, snr |-> 0, wpm |-> 0]
IdleThread == [at |-> "idle", raw |-> NoRaw, snap |-> <<>>]

-----------------------------------------------------------------------------
(* RbnMessage and RbnCommand *)

Ev(t, text, arg, n) == [t |-> t, text |-> text, arg |-> arg, n |-> n]
Status(text, arg) == Ev("Status", text, arg, 0)
Spot(n) == Ev("Spot", "", "", n)
Disconnected == Ev("Disconnected", "", "", 0)

Connect(c) == [t |-> "Connect", call |-> c]
Disconnect == [t |-> "Disconnect", call |-> ""]
NoCmd == [t |-> "None", call |-> ""]

Last(s) == s[Len(s)]

-----------------------------------------------------------------------------
(* The TCP connection.  Lines are the unit of transfer: a line is its kind  *)
(* (login prompt, a line parse_spot_line accepts, any other line) and the   *)
(* serial number the peer sent it under.                                    *)

LineKinds == {"prompt", "spot", "junk"}
Line(k, n) == [kind |-> k, id |-> n]

NoSock == [id |-> 0, inbuf |-> <<>>, eof |-> FALSE, err |-> FALSE,
           sent |-> <<>>, wrote |-> <<>>]
NewSock(n) == [NoSock EXCEPT !.id = n]

(* parse_spot_line: Some(spot) for a line the pattern matches *)
parse_spot_line(line) == IF line.kind = "spot" THEN <<Spot(line.id)>> ELSE <<>>

(* handle_login's test for the prompt *)
IsPromptOrSpot(line) == line.kind \in {"prompt", "spot"}
IsPrompt(line) == line.kind = "prompt"

-----------------------------------------------------------------------------
(* Events each arm of rbn_task sends *)

ConnectingMsgs == <<Status("Connecting to rbn.telegraphy.de:7000...", "")>>
ConnectedMsgs == <<Status("Connected, waiting for login prompt...", "")>>
ConnectFailedMsgs == <<Status("Connection failed", "connect error")>>
LoginFailedMsgsAndDisconnected(e) == <<Status("Login failed", e), Disconnected>>
LoginFailedMsgs(e) == <<Status("Login failed", e)>>
LoggedInMsgs(c) == <<Status("Logged in as", c)>>
DisconnectMsgsSwapped == <<Disconnected, Status("Disconnected", "")>>
DisconnectMsgs == <<Status("Disconnected", ""), Disconnected>>
ClosedMsgs == <<Status("Connection closed", ""), Disconnected>>
ReadErrorMsgs == <<Status("Read error", "io error")>>

DoneRetrying(p) ==
    CASE p = "announce" -> "connecting"
      [] p = "connected" -> "login"
      [] p = "connfail" -> "connecting"
      [] OTHER -> "select"

(* pc once the sends of the handler at await point p have completed *)
Done(p) ==
    CASE p = "announce" -> "connecting"
      [] p = "connected" -> "login"
      [] OTHER -> "select"

(* `stream` once the sends of the handler at await point p have completed:  *)
(* line 89 after the send of line 86, line 97 after the send of line 94;    *)
(* the read arm's result (lines 124, 133) is discarded at line 138          *)
StreamAfter(p) ==
    CASE p = "connected" -> sock.id
      [] p = "loginfail" -> 0
      [] OTHER -> stream

SockAfter(p) == IF p = "loginfail" THEN NoSock ELSE sock

(* line 78, `stream = None`: the socket `held` is dropped *)
KeepStream(held) == held
DropStream(held) == 0

(* select! drops the futures of the arms it did not take: the read arm's    *)
(* future goes with the events it was still waiting to send                 *)
CancelledLate(pending) == pending
Cancelled(pending) == <<>>

ConnectLabels == {"announce", "connecting", "connected", "login", "logged",
                  "loginfail", "connfail"}

-----------------------------------------------------------------------------
MInit ==
    /\ pc = "select"
    /\ stream = 0
    /\ outbox = <<>>
    /\ cs = ""
    /\ cmdq = <<>>
    /\ msgq = <<>>
    /\ cpend = NoCmd
    /\ sock = NoSock
    /\ rbuf = <<>>
    /\ ncmds = 0
    /\ nsent = 0
    /\ ndeq = 0
    /\ attempts = 0
    /\ emitted = <<>>
    /\ received = <<>>
    /\ polled = TRUE

SInit ==
    /\ spots = <<>>
    /\ now = 0
    /\ merged = <<>>
    /\ nadds = 0
    /\ nticks = 0
    /\ lastOp = "new"
    /\ result = <<>>
    /\ args = NoArgs
    /\ counted = 0
    /\ poisoned = FALSE
    /\ panicked = FALSE
    /\ lock = 0
    /\ th = [t \in Threads |-> IdleThread]

Init == MInit /\ SInit /\ track = TRUE

-----------------------------------------------------------------------------
(* rbn_task.  RbnClient holds cmd_tx and msg_rx for as long as the consumer *)
(* runs: cmd_rx.recv() never yields None, so the else arm of select!        *)
(* (lines 141-144) is never taken, and no msg_tx.send fails.                *)

(* select! arm 1, RbnCommand::Connect: lines 76-82 up to the first send.    *)
(* The read arm's future, with any send it was waiting in, is dropped.      *)
RecvConnect ==
    /\ pc = "select"
    /\ cmdq # <<>>
    /\ Head(cmdq).t = "Connect"
    /\ cmdq' = Tail(cmdq)
    /\ cs' = Head(cmdq).call
    /\ stream' = DropStream(stream)
    /\ sock' = NoSock
    /\ outbox' = Cancelled(outbox) \o ConnectingMsgs
    /\ pc' = "announce"
    /\ ndeq' = ndeq + 1
    /\ UNCHANGED <<msgq, cpend, rbuf, ncmds, nsent, attempts, emitted, received, track, polled, svars, cvars>>

(* select! arm 1, RbnCommand::Disconnect: lines 108-109 *)
RecvDisconnect ==
    /\ pc = "select"
    /\ cmdq # <<>>
    /\ Head(cmdq).t = "Disconnect"
    /\ cmdq' = Tail(cmdq)
    /\ stream' = 0
    /\ sock' = NoSock
    /\ outbox' = Cancelled(outbox) \o DisconnectMsgs
    /\ pc' = "disc"
    /\ UNCHANGED <<cs, msgq, cpend, rbuf, ncmds, nsent, ndeq, attempts, emitted, received, track, polled, svars, cvars>>

(* one msg_tx.send(..).await completing: the channel has room *)
SendOne ==
    /\ outbox # <<>>
    /\ Len(msgq) < MSG_CAPACITY
    /\ track => Len(emitted) < MaxEmitted
    /\ msgq' = Append(msgq, Head(outbox))
    /\ emitted' = IF track THEN Append(emitted, Head(outbox)) ELSE emitted
    /\ outbox' = Tail(outbox)
    /\ IF Tail(outbox) = <<>>
       THEN /\ pc' = Done(pc)
            /\ stream' = StreamAfter(pc)
            /\ sock' = SockAfter(pc)
            /\ cs' = IF Done(pc) = "select" THEN "" ELSE cs
       ELSE UNCHANGED <<pc, stream, sock, cs>>
    /\ UNCHANGED <<cmdq, cpend, rbuf, ncmds, nsent, ndeq, attempts, received, track, polled, svars, cvars>>

(* TcpStream::connect resolves Ok: lines 84-88 *)
ConnectOk ==
    /\ pc = "connecting"
    /\ outbox = <<>>
    /\ attempts' = attempts + 1
    /\ sock' = NewSock(attempts + 1)
    /\ rbuf' = <<>>
    /\ outbox' = ConnectedMsgs
    /\ pc' = "connected"
    /\ UNCHANGED <<stream, cs, cmdq, msgq, cpend, ncmds, nsent, ndeq, emitted, received, track, polled, svars, cvars>>

(* TcpStream::connect resolves Err: lines 101-105 *)
ConnectFail ==
    /\ pc = "connecting"
    /\ outbox = <<>>
    /\ attempts' = attempts + 1
    /\ outbox' = ConnectFailedMsgs
    /\ pc' = "connfail"
    /\ UNCHANGED <<stream, cs, cmdq, msgq, cpend, sock, rbuf, ncmds, nsent, ndeq, emitted, received, track, polled, svars, cvars>>

(* handle_login, read_line returns a line: lines 158-175.  The BufReader    *)
(* of line 154 lives for the whole handshake: one read of the socket takes  *)
(* every line that has arrived, later calls are served from the buffer,     *)
(* and what the buffer still holds when handle_login returns is dropped.    *)
LoginReadLine ==
    /\ pc = "login"
    /\ outbox = <<>>
    /\ rbuf # <<>> \/ sock.inbuf # <<>>
    /\ LET fill == rbuf = <<>>
           buf == IF fill THEN sock.inbuf ELSE rbuf
           line == Head(buf)
           s1 == IF fill THEN [sock EXCEPT !.inbuf = <<>>] ELSE sock
       IN  IF IsPrompt(line)
           THEN \/ /\ ~sock.err             \* write_all succeeds
                   /\ sock' = [s1 EXCEPT !.wrote = Append(@, cs)]
                   /\ outbox' = LoggedInMsgs(cs)
                   /\ pc' = "logged"
                   /\ rbuf' = <<>>
                \/ /\ sock.err \/ sock.eof  \* write_all fails
                   /\ sock' = s1
                   /\ outbox' = LoginFailedMsgs("Failed to send callsign")
                   /\ pc' = "loginfail"
                   /\ rbuf' = <<>>
           ELSE /\ sock' = s1
                /\ rbuf' = Tail(buf)
                /\ UNCHANGED <<outbox, pc>>
    /\ UNCHANGED <<stream, cs, cmdq, msgq, cpend, ncmds, nsent, ndeq, attempts, emitted, received, track, polled, svars, cvars>>

(* handle_login, read_line returns Ok(0) or Err: lines 161, 176, 93-96 *)
LoginReadEnd ==
    /\ pc = "login"
    /\ outbox = <<>>
    /\ rbuf = <<>>
    /\ sock.inbuf = <<>>
    /\ sock.eof \/ sock.err
    /\ outbox' = LoginFailedMsgs(IF sock.err THEN "Read error" ELSE "Connection closed")
    /\ pc' = "loginfail"
    /\ UNCHANGED <<stream, cs, cmdq, msgq, cpend, sock, rbuf, ncmds, nsent, ndeq, attempts, emitted, received, track, polled, svars, cvars>>

(* select! arm 2, read_line returns a line: lines 116-119, 126-130.  The    *)
(* BufReader of line 117 is new in every iteration and dropped at its end:  *)
(* its one read of the socket takes every line that has arrived, read_line  *)
(* returns the first, the others go with the buffer.                        *)
StreamReadLine ==
    /\ pc = "select"
    /\ stream # 0
    /\ outbox = <<>>
    /\ sock.inbuf # <<>>
    /\ sock' = [sock EXCEPT !.inbuf = <<>>]
    /\ outbox' = parse_spot_line(Head(sock.inbuf))
    /\ UNCHANGED <<pc, stream, cs, cmdq, msgq, cpend, rbuf, ncmds, nsent, ndeq, attempts, emitted, received, track, polled, svars, cvars>>

(* select! arm 2, read_line returns Ok(0): lines 120-125 *)
StreamReadClosed ==
    /\ pc = "select"
    /\ stream # 0
    /\ outbox = <<>>
    /\ sock.inbuf = <<>>
    /\ sock.eof
    /\ ~sock.err
    /\ outbox' = ClosedMsgs
    /\ UNCHANGED <<pc, stream, cs, cmdq, msgq, cpend, sock, rbuf, ncmds, nsent, ndeq, attempts, emitted, received, track, polled, svars, cvars>>

(* select! arm 2, read_line returns Err: lines 131-134.  What the next read *)
(* of the failed socket returns is the platform's choice: the error again   *)
(* or end of stream.                                                        *)
StreamReadError ==
    /\ pc = "select"
    /\ stream # 0
    /\ outbox = <<>>
    /\ sock.err
    /\ outbox' = ReadErrorMsgs
    /\ \E again \in BOOLEAN : sock' = [sock EXCEPT !.err = again, !.eof = TRUE]
    /\ UNCHANGED <<pc, stream, cs, cmdq, msgq, cpend, rbuf, ncmds, nsent, ndeq, attempts, emitted, received, track, polled, svars, cvars>>

-----------------------------------------------------------------------------
(* The remote peer and the network *)

PeerSend ==
    /\ sock.id # 0
    /\ ~sock.eof
    /\ ~sock.err
    /\ nsent < MaxLines
    /\ \E k \in LineKinds :
          sock' = [sock EXCEPT !.inbuf = Append(@, Line(k, nsent + 1)),
                               !.sent = Append(@, Line(k, nsent + 1))]
    /\ nsent' = nsent + 1
    /\ UNCHANGED <<pc, stream, outbox, cs, cmdq, msgq, cpend, rbuf, ncmds, ndeq, attempts, emitted, received, track, polled, svars, cvars>>

PeerClose ==
    /\ sock.id # 0
    /\ ~sock.eof
    /\ ~sock.err
    /\ sock' = [sock EXCEPT !.eof = TRUE]
    /\ UNCHANGED <<pc, stream, outbox, cs, cmdq, msgq, cpend, rbuf, ncmds, nsent, ndeq, attempts, emitted, received, track, polled, svars, cvars>>

(* the connection fails: unread data is gone, reads and writes return Err *)
PeerReset ==
    /\ sock.id # 0
    /\ ~sock.eof
    /\ ~sock.err
    /\ sock' = [sock EXCEPT !.err = TRUE, !.inbuf = <<>>]
    /\ UNCHANGED <<pc, stream, outbox, cs, cmdq, msgq, cpend, rbuf, ncmds, nsent, ndeq, attempts, emitted, received, track, polled, svars, cvars>>

-----------------------------------------------------------------------------
(* RbnClient, as the consumer uses it *)

(* cmd_tx.send(cmd).await: enqueues, or parks the caller while the channel is full *)
SendCmd(cmd) ==
    /\ cpend = NoCmd
    /\ ncmds < MaxCmds
    /\ ncmds' = ncmds + 1
    /\ IF Len(cmdq) < CMD_CAPACITY
       THEN cmdq' = Append(cmdq, cmd) /\ UNCHANGED cpend
       ELSE cpend' = cmd /\ UNCHANGED cmdq
    /\ UNCHANGED <<pc, stream, outbox, cs, msgq, sock, rbuf, nsent, ndeq, attempts, emitted, received, track, svars, cvars>>

(* RbnClient::connect *)
connect == (\E c \in Callsigns : SendCmd(Connect(c))) /\ UNCHANGED polled

(* RbnClient::disconnect *)
disconnect == SendCmd(Disconnect) /\ UNCHANGED polled

(* a parked cmd_tx.send completes *)
SendCmdResume ==
    /\ cpend # NoCmd
    /\ Len(cmdq) < CMD_CAPACITY
    /\ cmdq' = Append(cmdq, cpend)
    /\ cpend' = NoCmd
    /\ UNCHANGED <<pc, stream, outbox, cs, msgq, sock, rbuf, ncmds, nsent, ndeq, attempts, emitted, received, track, polled, svars, cvars>>

(* msg_rx.try_recv().ok(), line 60: the consumer is not inside a send *)
TryRecv ==
    /\ cpend = NoCmd
    /\ IF msgq = <<>>
       THEN UNCHANGED <<msgq, received>>
       ELSE /\ msgq' = Tail(msgq)
            /\ received' = IF track THEN Append(received, Head(msgq)) ELSE received
    /\ UNCHANGED <<pc, stream, outbox, cs, cmdq, cpend, sock, rbuf, ncmds, nsent, ndeq, attempts, emitted, track, svars, cvars>>

try_recv_keeping ==
    /\ cpend = NoCmd
    /\ IF msgq = <<>>
       THEN UNCHANGED received
       ELSE received' = IF track THEN Append(received, Head(msgq)) ELSE received
    /\ UNCHANGED <<pc, stream, outbox, cs, cmdq, msgq, cpend, sock, rbuf, ncmds, nsent, ndeq, attempts, emitted, track, polled, svars, cvars>>

(* RbnClient::try_recv *)
try_recv == TryRecv /\ UNCHANGED polled

-----------------------------------------------------------------------------
Next ==
    \/ RecvConnect
    \/ RecvDisconnect
    \/ SendOne
    \/ ConnectOk
    \/ ConnectFail
    \/ LoginReadLine
    \/ LoginReadEnd
    \/ StreamReadLine
    \/ StreamReadClosed
    \/ StreamReadError
    \/ PeerSend
    \/ PeerClose
    \/ PeerReset
    \/ connect
    \/ disconnect
    \/ SendCmdResume
    \/ try_recv

Spec == Init /\ [][Next]_vars

(* The runtime keeps polling the task, select! picks among ready arms at    *)
(* random, a connect attempt ends (the OS bounds it), and the consumer's    *)
(* loop keeps polling; nothing is assumed of the remote peer.  The          *)
(* histories are not recorded, so no run is cut short.                      *)
FairInit == MInit /\ SInit /\ track = FALSE

Fairness ==
    /\ WF_vars(RecvConnect)
    /\ WF_vars(RecvDisconnect)
    /\ WF_vars(SendOne)
    /\ WF_vars(ConnectOk \/ ConnectFail)
    /\ WF_vars(LoginReadLine)
    /\ WF_vars(LoginReadEnd)
    /\ WF_vars(StreamReadLine)
    /\ WF_vars(StreamReadClosed)
    /\ WF_vars(StreamReadError)
    /\ WF_vars(SendCmdResume)
    /\ WF_vars(try_recv)

FairSpec == FairInit /\ [][Next]_vars /\ Fairness

(* A consumer that alternates: between two commands it calls try_recv at    *)
(* least once.                                                              *)
connect_after_poll ==
    /\ polled
    /\ \E c \in Callsigns : SendCmd(Connect(c))
    /\ polled' = FALSE

disconnect_after_poll ==
    /\ polled
    /\ SendCmd(Disconnect)
    /\ polled' = FALSE

poll == TryRecv /\ polled' = TRUE

AltNext ==
    \/ RecvConnect
    \/ RecvDisconnect
    \/ SendOne
    \/ ConnectOk
    \/ ConnectFail
    \/ LoginReadLine
    \/ LoginReadEnd
    \/ StreamReadLine
    \/ StreamReadClosed
    \/ StreamReadError
    \/ PeerSend
    \/ PeerClose
    \/ PeerReset
    \/ connect_after_poll
    \/ disconnect_after_poll
    \/ SendCmdResume
    \/ poll

AltSpec == Init /\ [][AltNext]_vars

-----------------------------------------------------------------------------
(* SpotStore.  Every operation but the three that sort by frequency is      *)
(* total; those unwrap partial_cmp (lines 53 and 64), which is None when a  *)
(* frequency is NaN.  The panic unwinds through the guard and poisons the   *)
(* mutex; from then on every lock() returns Err.  The feed's parser never   *)
(* yields a NaN, so StoreSpec inserts finite frequencies only and ApiSpec   *)
(* lets a caller of add_spot pass any f64.                                  *)

(* the observations callers insert; the keying speed goes with the SNR *)
RawSpots == {r \in [call : Calls, freq : Freqs, snr : Snrs, wpm : Wpms] : r.wpm = 15 + r.snr}

(* f64::NAN for a frequency, outside the range of the finite ones *)
NaN == -1

(* observations with a frequency that is not a number *)
NanSpots == {r \in [call : Calls, freq : {NaN}, snr : Snrs, wpm : Wpms] : r.wpm = 15 + r.snr}

RoundTruncating(f) == IF f = NaN THEN NaN ELSE f \div 10

(* f64::round on a frequency held in tenths: to the nearest whole kHz, half *)
(* away from zero; NaN rounds to NaN                                        *)
Round(f) ==
    IF f = NaN THEN NaN
    ELSE IF f >= 0 THEN (f + 5) \div 10 ELSE -((5 - f) \div 10)

DigitChars == <<"0", "1", "2", "3", "4", "5", "6", "7", "8", "9">>

RECURSIVE Digits(_)
(* {:.0} of a whole, non-negative number, or of NaN *)
Digits(n) ==
    IF n = NaN THEN <<"N", "a", "N">>
    ELSE IF n < 10 THEN <<DigitChars[n + 1]>>
    ELSE Append(Digits(n \div 10), DigitChars[(n % 10) + 1])

(* format!("{}|{:.0}", raw.spotted_callsign, center_freq) *)
Key(raw) == raw.call \o <<"|">> \o Digits(Round(raw.freq))

Max(a, b) == IF a >= b THEN a ELSE b

(* AggregatedSpot::from_raw *)
from_raw(raw, t) ==
    [call |-> raw.call, freq |-> raw.freq, snr |-> raw.snr, wpm |-> raw.wpm, last |-> t]

(* AggregatedSpot::update *)
update(existing, raw, t) ==
    [existing EXCEPT !.snr = Max(@, raw.snr), !.wpm = raw.wpm, !.last = t]

(* HashMap::insert / get_mut on a map held as a function *)
PutAlone(map, k, v) == [x \in {k} |-> v]
Put(map, k, v) == [x \in (DOMAIN map) \cup {k} |-> IF x = k THEN v ELSE map[x]]
Restrict(map, ks) == [x \in ks |-> map[x]]

(* the map after SpotStore::add_spot(raw) at time t *)
AddSpotOverwrite(map, raw, t) == Put(map, Key(raw), from_raw(raw, t))
AddSpot(map, raw, t) ==
    IF Key(raw) \in DOMAIN map
    THEN Put(map, Key(raw), update(map[Key(raw)], raw, t))
    ELSE Put(map, Key(raw), from_raw(raw, t))

PURGE_SECS == 30 * 60

(* the keys SpotStore::purge_old_spots retains at time t *)
RetainedStrict(map, t) == {k \in DOMAIN map : map[k].last > t - PURGE_SECS}
Retained(map, t) == {k \in DOMAIN map : map[k].last >= t - PURGE_SECS}

(* the filter of get_filtered_spots, line 50 *)
PassesAbove(r, min_snr, cutoff) == r.snr > min_snr /\ r.last >= cutoff
Passes(r, min_snr, cutoff) == r.snr >= min_snr /\ r.last >= cutoff

(* arrangements of a collection the map yields in any order *)
Arrangements(recs) ==
    {s \in [1..Cardinality(recs) -> recs] :
        \A i, j \in 1..Cardinality(recs) : s[i] = s[j] => i = j}

(* sort_by(frequency_khz) of a collection the map yields in any order *)
SortedByFreq(recs) ==
    {s \in Arrangements(recs) :
        \A i, j \in 1..Cardinality(recs) : i < j => s[i].freq <= s[j].freq}

(* sort_by(|a, b| b.last_spotted.cmp(&a.last_spotted)), line 76 *)
SortedByRecencyOldestFirst(recs) ==
    {s \in Arrangements(recs) :
        \A i, j \in 1..Cardinality(recs) : i < j => s[i].last <= s[j].last}
SortedByRecency(recs) ==
    {s \in Arrangements(recs) :
        \A i, j \in 1..Cardinality(recs) : i < j => s[i].last >= s[j].last}

(* partial_cmp(..).unwrap() in the comparator: the sort compares every      *)
(* element of a slice of two or more, and a comparison with NaN is None     *)
SortPanics(recs) == Cardinality(recs) >= 2 /\ \E r \in recs : r.freq = NaN

Values(map) == {map[k] : k \in DOMAIN map}

(* SpotStore::add_spot(raw) *)
AddSpotCall(raw) ==
    /\ nadds < MaxAdds
    /\ IF poisoned
       THEN UNCHANGED <<spots, merged>>
       ELSE /\ spots' = AddSpot(spots, raw, now)
            /\ merged' = Put(merged, Key(raw),
                             IF Key(raw) \in DOMAIN spots
                             THEN merged[Key(raw)] \cup {raw} ELSE {raw})
    /\ nadds' = nadds + 1
    /\ lastOp' = "add_spot"
    /\ result' = <<>>
    /\ args' = NoArgs
    /\ counted' = 0
    /\ UNCHANGED <<now, nticks, poisoned, panicked, mvars, cvars>>

add_spot == \E raw \in RawSpots : AddSpotCall(raw)

(* SpotStore::purge_old_spots *)
purge_old_spots ==
    /\ IF poisoned
       THEN UNCHANGED <<spots, merged>>
       ELSE /\ spots' = Restrict(spots, Retained(spots, now))
            /\ merged' = Restrict(merged, Retained(spots, now))
    /\ lastOp' = "purge_old_spots"
    /\ result' = <<>>
    /\ args' = NoArgs
    /\ counted' = 0
    /\ UNCHANGED <<now, nadds, nticks, poisoned, panicked, mvars, cvars>>

(* a query that collects `recs` under the guard and sorts them by frequency *)
ReturnSortedByFreq(op, recs) ==
    IF poisoned
    THEN lastOp' = op /\ result' = <<>> /\ UNCHANGED <<poisoned, panicked>>
    ELSE IF SortPanics(recs)
    THEN lastOp' = "panic" /\ result' = <<>> /\ poisoned' = TRUE /\ panicked' = TRUE
    ELSE lastOp' = op /\ result' \in SortedByFreq(recs) /\ UNCHANGED <<poisoned, panicked>>

get_filtered_spots_retaining ==
    /\ \E min_snr \in MinSnrs, max_age \in MaxAges :
          /\ args' = [min_snr |-> min_snr, max_age |-> max_age]
          /\ ReturnSortedByFreq("get_filtered_spots",
                {r \in Values(spots) : Passes(r, min_snr, now - max_age)})
          /\ spots' = Restrict(spots, {k \in DOMAIN spots : Passes(spots[k], min_snr, now - max_age)})
    /\ counted' = 0
    /\ UNCHANGED <<merged, now, nadds, nticks, mvars, cvars>>

(* SpotStore::get_filtered_spots(min_snr, max_age) *)
get_filtered_spots ==
    /\ \E min_snr \in MinSnrs, max_age \in MaxAges :
          /\ args' = [min_snr |-> min_snr, max_age |-> max_age]
          /\ ReturnSortedByFreq("get_filtered_spots",
                {r \in Values(spots) : Passes(r, min_snr, now - max_age)})
    /\ counted' = 0
    /\ UNCHANGED <<spots, merged, now, nadds, nticks, mvars, cvars>>

(* SpotStore::get_spots_by_frequency *)
get_spots_by_frequency ==
    /\ ReturnSortedByFreq("get_spots_by_frequency", Values(spots))
    /\ args' = NoArgs
    /\ counted' = 0
    /\ UNCHANGED <<spots, merged, now, nadds, nticks, mvars, cvars>>

(* SpotStore::get_spots_by_recency *)
get_spots_by_recency ==
    /\ result' \in (IF poisoned THEN {<<>>} ELSE SortedByRecency(Values(spots)))
    /\ lastOp' = "get_spots_by_recency"
    /\ args' = NoArgs
    /\ counted' = 0
    /\ UNCHANGED <<spots, merged, now, nadds, nticks, poisoned, panicked, mvars, cvars>>

(* SpotStore::count *)
count ==
    /\ counted' = IF poisoned THEN 0 ELSE Cardinality(DOMAIN spots)
    /\ lastOp' = "count"
    /\ result' = <<>>
    /\ args' = NoArgs
    /\ UNCHANGED <<spots, merged, now, nadds, nticks, poisoned, panicked, mvars, cvars>>

(* SpotStore::clear *)
clear ==
    /\ IF poisoned
       THEN UNCHANGED <<spots, merged>>
       ELSE spots' = <<>> /\ merged' = <<>>
    /\ lastOp' = "clear"
    /\ result' = <<>>
    /\ args' = NoArgs
    /\ counted' = 0
    /\ UNCHANGED <<now, nadds, nticks, poisoned, panicked, mvars, cvars>>

(* time passes between calls *)
Tick ==
    /\ nticks < MaxTicks
    /\ \E d \in TickSteps : now' = now + d
    /\ nticks' = nticks + 1
    /\ lastOp' = "tick"
    /\ result' = <<>>
    /\ args' = NoArgs
    /\ counted' = 0
    /\ UNCHANGED <<spots, merged, nadds, poisoned, panicked, mvars, cvars>>

StoreNext ==
    \/ add_spot
    \/ purge_old_spots
    \/ get_filtered_spots
    \/ Tick

StoreSpec == Init /\ [][StoreNext]_vars

(* the observations inserted where every operation of the store is called:  *)
(* two callsigns on 24.5 and 25.6 kHz                                       *)
QuerySpots == {r \in RawSpots : r.freq # 254}

add_spot_to_query == \E raw \in QuerySpots : AddSpotCall(raw)

QueryNext ==
    \/ add_spot_to_query
    \/ purge_old_spots
    \/ get_filtered_spots
    \/ get_spots_by_frequency
    \/ get_spots_by_recency
    \/ count
    \/ clear
    \/ Tick

QuerySpec == Init /\ [][QueryNext]_vars

(* add_spot called with a frequency that is not a number *)
add_spot_nan == \E raw \in NanSpots : AddSpotCall(raw)

ApiNext ==
    \/ add_spot
    \/ add_spot_nan
    \/ purge_old_spots
    \/ get_filtered_spots
    \/ get_spots_by_frequency
    \/ get_spots_by_recency
    \/ count
    \/ clear
    \/ Tick

ApiSpec == Init /\ [][ApiNext]_vars

-----------------------------------------------------------------------------
(* SpotStore shared by concurrent callers.  Every clone of the handle holds *)
(* the same Arc (line 7, line 9): there is one map and one mutex.  A call   *)
(* is a sequence of steps; the steps between lock() and the drop of the     *)
(* guard are taken with the mutex held.                                     *)

(* the observations the concurrent callers insert: one callsign *)
ConcSpots == {r \in RawSpots : r.call = <<"K", "1">>}

(* Mutex::lock returns once no other thread holds the guard *)
CanLockAnyway(t) == TRUE
CanLock(t) == lock = 0

(* the steps a thread takes with the guard held *)
Critical == {"lookup", "insert", "update_snr", "update_rest", "unlock", "collect", "sort"}

(* add_spot is called: lines 20-22, the key is computed before lock() *)
AddSpotBegin(t) ==
    /\ th[t].at = "idle"
    /\ nadds < MaxAdds
    /\ nadds' = nadds + 1
    /\ \E raw \in ConcSpots : th' = [th EXCEPT ![t] = [@ EXCEPT !.at = "lock", !.raw = raw]]
    /\ UNCHANGED <<lock, spots, merged, now, nticks, lastOp, result, args, counted,
                   poisoned, panicked, mvars>>

(* line 24: self.spots.lock() *)
AddSpotLock(t) ==
    /\ th[t].at = "lock"
    /\ CanLock(t)
    /\ lock' = t
    /\ th' = [th EXCEPT ![t].at = "lookup"]
    /\ UNCHANGED <<spots, merged, now, nadds, nticks, lastOp, result, args, counted,
                   poisoned, panicked, mvars>>

(* line 25: spots.get_mut(&key) *)
AddSpotLookup(t) ==
    /\ th[t].at = "lookup"
    /\ th' = [th EXCEPT ![t].at =
                 IF Key(th[t].raw) \in DOMAIN spots THEN "update_snr" ELSE "insert"]
    /\ UNCHANGED <<lock, spots, merged, now, nadds, nticks, lastOp, result, args, counted,
                   poisoned, panicked, mvars>>

(* line 26, AggregatedSpot::update: the SNR is written first *)
AddSpotUpdateSnr(t) ==
    /\ th[t].at = "update_snr"
    /\ spots' = [spots EXCEPT ![Key(th[t].raw)].snr = Max(@, th[t].raw.snr)]
    /\ th' = [th EXCEPT ![t].at = "update_rest"]
    /\ UNCHANGED <<lock, merged, now, nadds, nticks, lastOp, result, args, counted,
                   poisoned, panicked, mvars>>

(* line 26, AggregatedSpot::update: then the speed and the timestamp *)
AddSpotUpdateRest(t) ==
    /\ th[t].at = "update_rest"
    /\ spots' = [spots EXCEPT ![Key(th[t].raw)].wpm = th[t].raw.wpm,
                              ![Key(th[t].raw)].last = now]
    /\ th' = [th EXCEPT ![t].at = "unlock"]
    /\ UNCHANGED <<lock, merged, now, nadds, nticks, lastOp, result, args, counted,
                   poisoned, panicked, mvars>>

(* lines 28-29: AggregatedSpot::from_raw and spots.insert(key, spot) *)
AddSpotInsert(t) ==
    /\ th[t].at = "insert"
    /\ spots' = Put(spots, Key(th[t].raw), from_raw(th[t].raw, now))
    /\ th' = [th EXCEPT ![t].at = "unlock"]
    /\ UNCHANGED <<lock, merged, now, nadds, nticks, lastOp, result, args, counted,
                   poisoned, panicked, mvars>>

(* lines 30-32: the guard is dropped and add_spot returns *)
AddSpotUnlock(t) ==
    /\ th[t].at = "unlock"
    /\ lock' = 0
    /\ merged' = Put(merged, Key(th[t].raw),
                     IF Key(th[t].raw) \in DOMAIN merged
                     THEN merged[Key(th[t].raw)] \cup {th[t].raw} ELSE {th[t].raw})
    /\ th' = [th EXCEPT ![t] = IdleThread]
    /\ lastOp' = "add_spot"
    /\ result' = <<>>
    /\ UNCHANGED <<spots, now, nadds, nticks, args, counted, poisoned, panicked, mvars>>

(* get_spots_by_frequency is called and reaches line 62: self.spots.lock() *)
QueryLock(t) ==
    /\ th[t].at = "idle"
    /\ CanLock(t)
    /\ lock' = t
    /\ th' = [th EXCEPT ![t].at = "collect"]
    /\ UNCHANGED <<spots, merged, now, nadds, nticks, lastOp, result, args, counted,
                   poisoned, panicked, mvars>>

(* line 63: spots.values().cloned().collect() *)
QueryCollect(t) ==
    /\ th[t].at = "collect"
    /\ th' = [th EXCEPT ![t] = [@ EXCEPT !.at = "sort", !.snap = spots]]
    /\ UNCHANGED <<lock, spots, merged, now, nadds, nticks, lastOp, result, args, counted,
                   poisoned, panicked, mvars>>

(* lines 64-68: the copy is sorted, the guard is dropped, the query returns *)
QueryReturn(t) ==
    /\ th[t].at = "sort"
    /\ result' \in SortedByFreq(Values(th[t].snap))
    /\ lastOp' = "get_spots_by_frequency"
    /\ lock' = 0
    /\ th' = [th EXCEPT ![t] = IdleThread]
    /\ UNCHANGED <<spots, merged, now, nadds, nticks, args, counted, poisoned, panicked, mvars>>

ConcNext ==
    \/ \E t \in Writers : AddSpotBegin(t)
    \/ \E t \in Writers : AddSpotLock(t)
    \/ \E t \in Writers : AddSpotLookup(t)
    \/ \E t \in Writers : AddSpotUpdateSnr(t)
    \/ \E t \in Writers : AddSpotUpdateRest(t)
    \/ \E t \in Writers : AddSpotInsert(t)
    \/ \E t \in Writers : AddSpotUnlock(t)
    \/ \E t \in Readers : QueryLock(t)
    \/ \E t \in Readers : QueryCollect(t)
    \/ \E t \in Readers : QueryReturn(t)
    \/ Tick

ConcSpec == Init /\ [][ConcNext]_vars

-----------------------------------------------------------------------------
(* The states of section 4.1 *)

Idle == pc = "select" /\ stream = 0 /\ outbox = <<>>
Connecting == pc \in {"announce", "connecting", "connected"}
LoggingIn == pc \in {"login", "logged", "loginfail"}
Streaming == pc = "select" /\ stream # 0
NonIdle == Connecting \/ LoggingIn \/ Streaming

DisconnectQueued == \E i \in 1..Len(cmdq) : cmdq[i] = Disconnect

(* C2: a Disconnect enqueued while the manager is not Idle leads to Idle    *)
(* with no socket held and to a Disconnected event in the event channel,    *)
(* whatever the remote peer does.                                           *)
C2_DisconnectLeadsToIdle ==
    /\ (DisconnectQueued /\ NonIdle) ~> Idle
    /\ (DisconnectQueued /\ NonIdle) ~> (msgq # <<>> /\ Last(msgq) = Disconnected)

-----------------------------------------------------------------------------
(* The read arm of select! has sent the last event of an end-of-stream or   *)
(* read-error report: its iteration of the loop is over.                    *)
StreamEndHandled ==
    /\ pc = "select"
    /\ outbox # <<>>
    /\ Head(outbox).t # "Spot"
    /\ outbox' = <<>>
    /\ pc' = "select"

(* C1: when a read in Streaming returns end-of-stream or an error, the      *)
(* manager emits a Status event followed by a Disconnected event, discards  *)
(* the socket and is Idle.                                                  *)
C1_StreamEndReturnsToIdle ==
    [][StreamEndHandled =>
          /\ Head(outbox) = Disconnected
          /\ emitted # <<>>
          /\ Last(emitted).t = "Status"
          /\ stream' = 0]_vars

-----------------------------------------------------------------------------
StatusDisconnected == Status("Disconnected", "")

(* C3: handling a Disconnect command leaves the manager with no socket and  *)
(* appends to the event queue exactly Status("Disconnected") immediately    *)
(* followed by Disconnected.                                                *)
C3_DisconnectEmitsPair ==
    /\ [](pc = "disc" =>
            /\ stream = 0
            /\ \/ outbox = <<StatusDisconnected, Disconnected>>
               \/ /\ outbox = <<Disconnected>>
                  /\ emitted # <<>>
                  /\ Last(emitted) = StatusDisconnected)
    /\ [][/\ (pc = "select" /\ cmdq # <<>> /\ Head(cmdq) = Disconnect /\ cmdq' = Tail(cmdq))
             => (pc' = "disc" /\ stream' = 0)
          /\ (pc = "disc" /\ emitted' # emitted)
             => (emitted' = Append(emitted, Head(outbox)) /\ outbox' = Tail(outbox))
          /\ (pc = "disc" /\ pc' # "disc")
             => /\ pc' = "select"
                /\ stream' = 0
                /\ outbox' = <<>>
                /\ Len(emitted') >= 2
                /\ emitted'[Len(emitted') - 1] = StatusDisconnected
                /\ emitted'[Len(emitted')] = Disconnected]_vars

(* a Disconnect has been handled to its end on a connection that was streaming *)
C3_Witness ==
    /\ Idle
    /\ attempts >= 1
    /\ Len(emitted) >= 5
    /\ emitted[Len(emitted) - 1] = StatusDisconnected
    /\ emitted[Len(emitted)] = Disconnected
    /\ emitted[Len(emitted) - 2].text = "Logged in as"

-----------------------------------------------------------------------------
(* Spot events, by the serial number of the line they were parsed from *)
SpotIds(evs) ==
    LET sp == SelectSeq(evs, LAMBDA e : e.t = "Spot")
    IN  [i \in 1..Len(sp) |-> sp[i].n]

(* index of the first login prompt among the lines sent, 0 when there is none *)
FirstPrompt(sent) ==
    IF \E i \in 1..Len(sent) : sent[i].kind = "prompt"
    THEN CHOOSE i \in 1..Len(sent) :
            /\ sent[i].kind = "prompt"
            /\ \A j \in 1..(i - 1) : sent[j].kind # "prompt"
    ELSE 0

(* serial numbers of the lines after the login prompt that parse as spots *)
SpotLinesAfterPrompt(sent) ==
    LET rest == SubSeq(sent, FirstPrompt(sent) + 1, Len(sent))
        sp == SelectSeq(rest, LAMBDA l : l.kind = "spot")
    IN  [i \in 1..Len(sp) |-> sp[i].id]

(* Spot events of the current connection *)
SpotsOfConnection ==
    LET ids == {sock.sent[i].id : i \in 1..Len(sock.sent)}
    IN  SpotIds(SelectSeq(emitted, LAMBDA e : e.t = "Spot" /\ e.n \in ids))

(* C4: in Streaming, once every line the peer delivered has been taken off  *)
(* the socket and handled, the Spot events of the connection are the lines  *)
(* sent after the login prompt that parse, each once, in arrival order.     *)
C4_NoLineLost ==
    (Streaming /\ outbox = <<>> /\ sock.inbuf = <<>> /\ track)
        => SpotsOfConnection = SpotLinesAfterPrompt(sock.sent)

-----------------------------------------------------------------------------
IsLoginFailed(e) == e.t = "Status" /\ e.text = "Login failed"

(* C5: when the socket closes or errors before the login prompt is seen,    *)
(* the manager emits a Status event reporting the failure, discards the     *)
(* socket and returns to Idle; the connection attempt emits no              *)
(* Disconnected event.                                                      *)
C5_HandshakeFailure ==
    /\ [](pc = "loginfail" => (Len(outbox) = 1 /\ IsLoginFailed(outbox[1])))
    /\ [][/\ (pc = "login" /\ rbuf = <<>> /\ sock.inbuf = <<>>
                /\ (sock.eof \/ sock.err) /\ pc' # "login")
             => pc' = "loginfail"
          /\ (pc = "loginfail" /\ pc' # "loginfail")
             => /\ pc' = "select"
                /\ stream' = 0
                /\ outbox' = <<>>
                /\ emitted' = Append(emitted, outbox[1])
          /\ (pc \in ConnectLabels /\ emitted' # emitted)
             => /\ Len(emitted') = Len(emitted) + 1
                /\ SubSeq(emitted', 1, Len(emitted)) = emitted
                /\ Last(emitted').t = "Status"]_vars

(* the peer closed before sending the prompt and the failure has been reported *)
C5_Witness ==
    /\ Idle
    /\ emitted # <<>>
    /\ Last(emitted) = Status("Login failed", "Connection closed")

-----------------------------------------------------------------------------
(* connection attempts started: TcpStream::connect has been called *)
AttemptsStarted == attempts + (IF pc = "connecting" THEN 1 ELSE 0)

IsConnectFailed(e) == e.t = "Status" /\ e.text = "Connection failed"

(* C6: a failed connection attempt is reported by a Status event and leaves *)
(* the manager Idle with no socket; every attempt is started by a dequeued  *)
(* Connect command, one attempt for each, also after a failure.             *)
C6_NoInternalRetry ==
    /\ [](/\ AttemptsStarted <= ndeq
          /\ AttemptsStarted = ndeq - (IF pc = "announce" THEN 1 ELSE 0)
          /\ pc = "connfail" =>
                (stream = 0 /\ Len(outbox) = 1 /\ IsConnectFailed(outbox[1])))
    /\ [][(pc = "connfail" /\ pc' # "connfail")
             => /\ pc' = "select"
                /\ stream' = 0
                /\ outbox' = <<>>
                /\ emitted' = Append(emitted, outbox[1])]_vars

(* an attempt failed and a later Connect command got a connection *)
C6_Witness ==
    /\ attempts >= 2
    /\ \E i, j \in 1..Len(emitted) :
          /\ i < j
          /\ IsConnectFailed(emitted[i])
          /\ emitted[j] = ConnectedMsgs[1]

-----------------------------------------------------------------------------
(* C7: the consumer receives the events in the order the manager generated  *)
(* them, none reordered or duplicated, and a poll of the empty queue        *)
(* returns nothing, leaves the queue as it is and is never blocked.         *)
C7_EventsInOrder ==
    /\ [](/\ track => received \o msgq = emitted
          /\ cpend = NoCmd => ENABLED try_recv)
    /\ [][msgq = <<>> => received' = received]_vars

(* the consumer has polled events and more are waiting *)
C7_Witness ==
    /\ Len(received) >= 2
    /\ Len(msgq) >= 2
    /\ \E i \in 1..Len(emitted) : emitted[i].t = "Disconnected"

-----------------------------------------------------------------------------
Abs(x) == IF x >= 0 THEN x ELSE -x

(* C8, as stated: two observations of one target less than 0.5 kHz apart    *)
(* are in one record, and two that are 0.5 kHz or more apart are in         *)
(* separate records.                                                        *)
C8_HalfKHzDecides ==
    \A k1, k2 \in DOMAIN merged : \A a \in merged[k1], b \in merged[k2] :
        a.call = b.call =>
            /\ Abs(a.freq - b.freq) < 5 => k1 = k2
            /\ Abs(a.freq - b.freq) >= 5 => k1 # k2

(* f is nearest to the whole kHz n, a frequency half way counting upwards *)
NearestTo(f, n) == 10 * n - 5 <= f /\ f < 10 * n + 5

(* C8, amended: two observations are in one record exactly when they name   *)
(* the same target and their frequencies are nearest to the same whole kHz; *)
(* so observations 1.0 kHz or more apart are in separate records and        *)
(* observations in one record are less than 1.0 kHz apart.  Each resident   *)
(* record has a key and holds at least one observation.                     *)
C8_RoundedFrequencyDecides ==
    /\ DOMAIN merged = DOMAIN spots
    /\ \A k \in DOMAIN merged : merged[k] # {}
    /\ \A k1, k2 \in DOMAIN merged : \A a \in merged[k1], b \in merged[k2] :
          /\ k1 = k2 <=>
                /\ a.call = b.call
                /\ \E n \in 0..(a.freq \div 10 + 1) : NearestTo(a.freq, n) /\ NearestTo(b.freq, n)
          /\ (a.call = b.call /\ Abs(a.freq - b.freq) >= 10) => k1 # k2
          /\ k1 = k2 => Abs(a.freq - b.freq) < 10

(* two observations of one target 0.9 kHz apart have merged into one record *)
C8_Witness ==
    \E k \in DOMAIN merged : \E a, b \in merged[k] : Abs(a.freq - b.freq) >= 5

-----------------------------------------------------------------------------
(* C9: the highest SNR of a resident record is the maximum SNR over the     *)
(* observations merged into it, whatever the order they arrived in.         *)
C9_HighestSnrIsMax ==
    \A k \in DOMAIN spots :
        /\ \E r \in merged[k] : spots[k].snr = r.snr
        /\ \A r \in merged[k] : spots[k].snr >= r.snr

(* a record whose latest observation had a lower SNR than an earlier one *)
C9_Witness ==
    \E k \in DOMAIN spots :
        /\ Cardinality({r.snr : r \in merged[k]}) >= 2
        /\ spots[k].wpm = 20
        /\ spots[k].snr = 10

-----------------------------------------------------------------------------
(* C10: after purge returns no resident record is more than 30 minutes      *)
(* older than the time of the call, and every record within 30 minutes of   *)
(* it is still resident and unchanged, whatever windows queries were given. *)
C10_PurgeAtThirtyMinutes ==
    [][lastOp' = "purge_old_spots" =>
          /\ now' = now
          /\ \A k \in DOMAIN spots' : now - spots'[k].last <= 30 * 60
          /\ \A k \in DOMAIN spots :
                now - spots[k].last <= 30 * 60 =>
                    (k \in DOMAIN spots' /\ spots'[k] = spots[k])]_vars

(* purge removed a record 30 minutes and 1 second old and kept one of 30 minutes *)
C10_Witness ==
    /\ lastOp = "purge_old_spots"
    /\ nadds = 2
    /\ Cardinality(DOMAIN spots) = 1
    /\ \E k \in DOMAIN spots : now - spots[k].last = 30 * 60

-----------------------------------------------------------------------------
(* what a caller can tell a returned sequence of records by *)
Holds(seq, r) == \E i \in 1..Len(seq) : seq[i] = r
NoRepeats(seq) == \A i, j \in 1..Len(seq) : seq[i] = seq[j] => i = j

(* C11: get_filtered_spots(min_snr, max_age) returns exactly the resident   *)
(* records whose highest SNR is at least min_snr and whose timestamp is     *)
(* within max_age of the time of the call, each once, in ascending order of *)
(* displayed frequency.                                                     *)
C11_FilteredQueryExact ==
    lastOp = "get_filtered_spots" =>
        /\ \A r \in Values(spots) :
              Holds(result, r) <=> (r.snr >= args.min_snr /\ now - r.last <= args.max_age)
        /\ \A i \in 1..Len(result) : result[i] \in Values(spots)
        /\ NoRepeats(result)
        /\ \A i, j \in 1..Len(result) : i < j => result[i].freq <= result[j].freq

(* a filtered query that kept a record whose age is exactly max_age and     *)
(* left a resident record out                                               *)
C11_Witness ==
    /\ lastOp = "get_filtered_spots"
    /\ \E i \in 1..Len(result) : now - result[i].last = args.max_age
    /\ Cardinality(DOMAIN spots) > Len(result)

(* C12: get_spots_by_frequency returns every resident record exactly once   *)
(* in non-decreasing order of displayed frequency, get_spots_by_recency     *)
(* returns every resident record exactly once in non-increasing order of    *)
(* timestamp, and both return as many entries as count reports.             *)
C12_UnfilteredQueriesOrdered ==
    /\ lastOp \in {"get_spots_by_frequency", "get_spots_by_recency"} =>
          /\ \A r \in Values(spots) : Holds(result, r)
          /\ \A i \in 1..Len(result) : result[i] \in Values(spots)
          /\ NoRepeats(result)
          /\ Len(result) = Cardinality(DOMAIN spots)
    /\ lastOp = "get_spots_by_frequency" =>
          \A i, j \in 1..Len(result) : i < j => result[i].freq <= result[j].freq
    /\ lastOp = "get_spots_by_recency" =>
          \A i, j \in 1..Len(result) : i < j => result[i].last >= result[j].last
    /\ lastOp = "count" => counted = Cardinality(DOMAIN spots)

(* a query by recency that returned two records of different age, the one   *)
(* with the lower frequency last                                            *)
C12_Witness ==
    /\ lastOp = "get_spots_by_recency"
    /\ Len(result) = 2
    /\ result[1].last > result[2].last
    /\ result[1].freq > result[2].freq

(* C16: add_spot increases the number of resident records by exactly one    *)
(* when the observation's key is absent and leaves it unchanged when the    *)
(* key is present; the record under every other key is unchanged.           *)
C16_AddSpotFrame ==
    [][nadds' = nadds + 1 =>
          \E k \in DOMAIN spots' :
             /\ DOMAIN spots' = DOMAIN spots \cup {k}
             /\ Cardinality(DOMAIN spots') =
                   Cardinality(DOMAIN spots) + (IF k \in DOMAIN spots THEN 0 ELSE 1)
             /\ \A x \in DOMAIN spots \ {k} : spots'[x] = spots[x]]_vars

(* an add_spot that created a second record next to an older one *)
C16_Witness ==
    /\ lastOp = "add_spot"
    /\ nadds = 2
    /\ Cardinality(DOMAIN spots) = 2
    /\ \E k \in DOMAIN spots : spots[k].last < now

QueryOps == {"get_filtered_spots", "get_spots_by_frequency", "get_spots_by_recency", "count"}

(* C17: the three queries and count change neither the set of resident      *)
(* records nor any record; a record a filtered query leaves out stays       *)
(* resident, is returned by the unfiltered queries and is counted, and only *)
(* purge_old_spots or clear removes a record.                               *)
C17_QueriesLeaveStoreAlone ==
    /\ [][lastOp' \in QueryOps => spots' = spots]_vars
    /\ [][(\E k \in DOMAIN spots : k \notin DOMAIN spots') =>
             lastOp' \in {"purge_old_spots", "clear"}]_vars
    /\ [](lastOp \in {"get_spots_by_frequency", "get_spots_by_recency"} =>
             \A k \in DOMAIN spots : Holds(result, spots[k]))
    /\ [](lastOp = "count" => counted = Cardinality(DOMAIN spots))

(* an unfiltered query returning a record every filtered query leaves out *)
C17_Witness ==
    /\ lastOp = "get_spots_by_frequency"
    /\ \E i \in 1..Len(result) :
          \A min_snr \in MinSnrs, max_age \in MaxAges :
             ~(result[i].snr >= min_snr /\ now - result[i].last <= max_age)

(* C13: no store operation aborts its caller, and once lock() returns Err   *)
(* the three queries return an empty sequence and count returns zero.       *)
C13_TotalAndSilent ==
    /\ ~panicked
    /\ lastOp # "panic"
    /\ (poisoned /\ lastOp \in QueryOps \ {"count"}) => result = <<>>
    /\ (poisoned /\ lastOp = "count") => counted = 0

(* once lock() returns Err, add_spot, purge_old_spots and clear leave the   *)
(* map as it is                                                             *)
PoisonedStoreIsInert == [][poisoned => spots' = spots]_vars

(* operations called on a store whose mutex is poisoned *)
PoisonedStoreCalled ==
    /\ poisoned
    /\ lastOp \in {"add_spot", "count", "get_spots_by_recency"}
    /\ spots # <<>>

-----------------------------------------------------------------------------
Highest(raws) == CHOOSE m \in {r.snr : r \in raws} : \A r \in raws : r.snr <= m

(* every record of `map` is the merge of whole add_spot calls: of the       *)
(* observations `seen` lists under its key, no key missing and none extra   *)
Whole(map, seen) ==
    /\ DOMAIN map = DOMAIN seen
    /\ \A k \in DOMAIN map :
          /\ map[k].snr = Highest(seen[k])
          /\ \E r \in seen[k] : map[k].wpm = r.wpm /\ map[k].call = r.call
          /\ \E r \in seen[k] : map[k].freq = r.freq

(* C18: the callers share one map and hold the one lock for the whole of an *)
(* operation: no two threads are between lock() and the drop of the guard   *)
(* at once; whenever the lock is free the map holds, for each key inserted, *)
(* one record that reflects every observation inserted under it; and the    *)
(* copy a query takes is the map as whole add_spot calls left it, never the *)
(* map in the middle of one.                                                *)
C18_OperationsAreAtomic ==
    /\ \A t \in Threads : th[t].at \in Critical => lock = t
    /\ lock = 0 => Whole(spots, merged)
    /\ \A t \in Readers : th[t].at = "sort" => (th[t].snap = spots /\ Whole(th[t].snap, merged))

(* a query holds the lock and has copied the map while a thread waits in    *)
(* lock() to merge a stronger observation into a record of that copy        *)
C18_Witness ==
    \E t \in Writers, q \in Readers :
       /\ th[t].at = "lock"
       /\ lock = q
       /\ th[q].at = "sort"
       /\ Key(th[t].raw) \in DOMAIN th[q].snap
       /\ th[t].raw.snr > th[q].snap[Key(th[t].raw)].snr

-----------------------------------------------------------------------------
(* the sockets rbn_task owns: the one in `stream`, and the one in the local *)
(* `s` of lines 85-89 while the send of line 86 is pending                  *)
Held ==
    (IF stream # 0 THEN {stream} ELSE {}) \cup (IF pc = "connected" THEN {sock.id} ELSE {})

(* C14: the manager holds at most one socket; from the moment a Connect is  *)
(* dequeued until its connection attempt has resolved it holds none; and    *)
(* the socket it reads is the one the latest attempt opened, never an       *)
(* earlier one.                                                             *)
C14_AtMostOneSocket ==
    /\ Cardinality(Held) <= 1
    /\ pc \in {"announce", "connecting", "connfail"} => Held = {}
    /\ stream # 0 => (stream = sock.id /\ stream = attempts)

(* a second Connect was dequeued while the socket of a completed login was  *)
(* held, and its own socket is open                                         *)
C14_Witness ==
    /\ pc = "connected"
    /\ ndeq = 2
    /\ sock.id = 2
    /\ \E i \in 1..Len(emitted) : emitted[i].text = "Logged in as"

(* index in `emitted` of the announcement of the latest connection attempt *)
LastAnnounced ==
    CHOOSE i \in 0..Len(emitted) :
       /\ i # 0 => emitted[i] = ConnectingMsgs[1]
       /\ \A j \in (i + 1)..Len(emitted) : emitted[j] # ConnectingMsgs[1]

LineIds(lines) == {lines[i].id : i \in 1..Len(lines)}

(* C15: a Connect that reaches Streaming has emitted the Status announcing  *)
(* the attempt, then the Status announcing the connection, has read the     *)
(* prompt, has written its callsign exactly once, and has then emitted the  *)
(* Status confirming the login; the callsign is never written before the    *)
(* prompt is read, and no Spot of the connection precedes the confirmation. *)
C15_LoginOrder ==
    /\ Len(sock.wrote) <= 1
    /\ sock.wrote # <<>> =>
          /\ \E i \in 1..Len(sock.sent) : sock.sent[i].kind = "prompt"
          /\ \A i \in 1..Len(sock.inbuf) : sock.inbuf[i] # sock.sent[FirstPrompt(sock.sent)]
          /\ \E i \in 1..Len(emitted) : emitted[i] = ConnectedMsgs[1] /\ i > LastAnnounced
    /\ (pc = "logged" /\ outbox # <<>>) =>
          /\ sock.wrote = <<cs>>
          /\ \A i \in 1..Len(emitted) : emitted[i].t = "Spot" => emitted[i].n \notin LineIds(sock.sent)
    /\ Streaming =>
          /\ Len(sock.wrote) = 1
          /\ LastAnnounced # 0
          /\ Len(emitted) >= LastAnnounced + 2
          /\ emitted[LastAnnounced + 1] = ConnectedMsgs[1]
          /\ emitted[LastAnnounced + 2] = LoggedInMsgs(sock.wrote[1])[1]
          /\ \A i \in 1..Len(emitted) :
                (emitted[i].t = "Spot" /\ emitted[i].n \in LineIds(sock.sent)) => i > LastAnnounced + 2

(* a connection that is Streaming and has delivered a Spot *)
C15_Witness ==
    /\ Streaming
    /\ sock.wrote # <<>>
    /\ \E i \in 1..Len(emitted) : emitted[i].t = "Spot" /\ emitted[i].n \in LineIds(sock.sent)

(* C19: after the manager has dequeued a Disconnect it sends no Spot, and   *)
(* in the event channel no Spot follows the Disconnected of a Disconnect    *)
(* unless the Status confirming a later login lies between them.            *)
C19_NoSpotAfterDisconnect ==
    /\ pc = "disc" => \A i \in 1..Len(outbox) : outbox[i].t # "Spot"
    /\ \A i, j \in 1..Len(emitted) :
          (/\ 1 < i
           /\ i < j
           /\ emitted[i - 1] = StatusDisconnected
           /\ emitted[i] = Disconnected
           /\ emitted[j].t = "Spot")
          => \E k \in (i + 1)..(j - 1) : emitted[k].text = "Logged in as"

(* a Disconnect handled on a connection that had delivered a Spot *)
C19_Witness ==
    /\ Idle
    /\ Len(emitted) >= 3
    /\ Last(emitted) = Disconnected
    /\ emitted[Len(emitted) - 1] = StatusDisconnected
    /\ \E i \in 1..Len(emitted) : emitted[i].t = "Spot"

(* rbn_task waits inside a command handler to send an event into the full   *)
(* event channel *)
ManagerBlocked == pc # "select" /\ outbox # <<>> /\ Len(msgq) = MSG_CAPACITY

(* the consumer waits in connect() or disconnect() to send a command into   *)
(* the full command channel *)
ConsumerBlocked == cpend # NoCmd /\ Len(cmdq) = CMD_CAPACITY

(* C20: with one consumer that alternates commands and polls, the manager   *)
(* is never blocked on the full event channel while the consumer is blocked *)
(* on the full command channel.                                             *)
C20_NoQueueDeadlock == ~(ManagerBlocked /\ ConsumerBlocked)

====
